---- MODULE Spec2Model ----
(***************************************************************************)
(* A model of wav-maker: the score loader (piece.rs, signal.rs, note.rs),  *)
(* the sample loop (piece.rs), the RIFF header (utils.rs) and the older    *)
(* single-file variant of the same program (main.rs).                      *)
(*                                                                         *)
(* Representation of the program's values:                                 *)
(*  - a character is a one-character string; a line and a token are        *)
(*    sequences of characters; "e_acute" stands for a character whose      *)
(*    UTF-8 encoding has two bytes;                                        *)
(*  - a u32 is the pair <<hi, lo>> of its 16-bit halves, so that the whole *)
(*    32-bit range and its overflow are representable;                     *)
(*  - an f64 tempo or amplitude is the integer number of tenths (1.0 is    *)
(*    10): decimal literals with at most one fractional digit are exact;   *)
(*  - a frequency is an integer number of hundredths of a hertz, and a     *)
(*    value of the waveform in [-1, 1] an integer number of hundredths;    *)
(*  - Result values are records tagged "Ok", "Err" or "Panic".             *)
(***************************************************************************)
EXTENDS Integers, Sequences, FiniteSets, TLC

(***************************************************************************)
(* Bounds of the model.                                                    *)
(***************************************************************************)
\* the longest score, in lines
MaxLines == 2
\* the sample index at which the model stops counting samples
MaxSample == 16
\* the longest token handed to Note::new on its own
MaxTokenLen == 3

(***************************************************************************)
(* utils.rs: constants.                                                    *)
(***************************************************************************)
RIFF == <<82, 73, 70, 70>>
WAVE == <<87, 65, 86, 69>>
FMT == <<102, 109, 116, 32>>
DATA == <<100, 97, 116, 97>>
CHUNK_SIZE == 16
FORMAT == 1
CHANNELS == 1
SAMPLE_RATE == 44100
BITS_PER_SAMPLE == 16
DEFAULT_BPM == 100
DEFAULT_AMPL == 2048
\* main.rs: the amplitude every oscillator of the older variant is scaled by
BASE_AMPLITUDE == 2048

(***************************************************************************)
(* Result and Option values.                                               *)
(***************************************************************************)
None == [tag |-> "None"]
Some(v) == [tag |-> "Some", val |-> v]
Ok(v) == [tag |-> "Ok", val |-> v]
\* a SyntaxErrorType: its variant and the text it carries (<<>> for none)
Err(kind, text) == [tag |-> "Err", kind |-> kind, text |-> text]
\* the call aborts the program
Panic == [tag |-> "Panic"]

(***************************************************************************)
(* Fixed-width integers.                                                   *)
(***************************************************************************)
\* the u32 of a small natural number
U32(i) == <<i \div 65536, i % 65536>>
U32_le(a, b) == a[1] < b[1] \/ (a[1] = b[1] /\ a[2] <= b[2])
\* a + b on u32: the wrapped sum, and whether the true sum left the range
U32_add(a, b) ==
    LET lo == a[2] + b[2]
        hi == a[1] + b[1] + (lo \div 65536)
    IN  [overflow |-> hi >= 65536, val |-> <<hi % 65536, lo % 65536>>]
u32_to_le_bytes(a) == <<a[2] % 256, a[2] \div 256, a[1] % 256, a[1] \div 256>>
u16_to_le_bytes(x) == <<x % 256, x \div 256>>
\* i16::to_le_bytes: two's complement
i16_to_le_bytes(x) == u16_to_le_bytes((x + 65536) % 65536)

(***************************************************************************)
(* Characters and strings.                                                 *)
(***************************************************************************)
Digits == {"0", "1", "2", "3", "4", "5", "6", "7", "8", "9"}
\* char::to_digit(10)
to_digit(c) ==
    CASE c = "0" -> 0 [] c = "1" -> 1 [] c = "2" -> 2 [] c = "3" -> 3
      [] c = "4" -> 4 [] c = "5" -> 5 [] c = "6" -> 6 [] c = "7" -> 7
      [] c = "8" -> 8 [] c = "9" -> 9 [] OTHER -> -1
\* the number of bytes of a character's UTF-8 encoding
len_utf8(c) == IF c = "e_acute" THEN 2 ELSE 1
\* str::starts_with
starts_with(line, prefix) ==
    /\ Len(line) >= Len(prefix)
    /\ SubSeq(line, 1, Len(prefix)) = prefix
\* &line[4..]: the line without its first four bytes (ASCII in every caller)
skip4(line) == SubSeq(line, 5, Len(line))

RECURSIVE split_from(_, _, _)
\* the tokens of line from position i on, cur being the token under way
split_from(line, i, cur) ==
    IF i > Len(line)
    THEN IF cur = <<>> THEN <<>> ELSE <<cur>>
    ELSE IF line[i] = " "
         THEN IF cur = <<>>
              THEN split_from(line, i + 1, <<>>)
              ELSE <<cur>> \o split_from(line, i + 1, <<>>)
         ELSE split_from(line, i + 1, Append(cur, line[i]))
\* str::split_whitespace, collected
split_whitespace(line) == split_from(line, 1, <<>>)
\* Iterator::nth(k).unwrap_or_default()
nth_or_default(parts, k) == IF Len(parts) > k THEN parts[k + 1] ELSE <<>>

(***************************************************************************)
(* str::parse for u32, u16 and f64.                                        *)
(***************************************************************************)
RECURSIVE u32_digits(_, _, _)
\* the digits of s from position i on, appended to the value acc
u32_digits(s, i, acc) ==
    IF i > Len(s) THEN Ok(acc)
    ELSE IF s[i] \notin Digits THEN Err("InvalidDigit", s)
    ELSE LET lo == acc[2] * 10 + to_digit(s[i])
             hi == acc[1] * 10 + (lo \div 65536)
         IN  IF hi >= 65536 THEN Err("PosOverflow", s)
             ELSE u32_digits(s, i + 1, <<hi, lo % 65536>>)
\* s.parse::<u32>(): decimal digits after an optional '+'
parse_u32(s) ==
    IF s = <<>> THEN Err("Empty", s)
    ELSE IF s[1] = "+" \/ s[1] = "-"
         THEN IF Len(s) = 1 \/ s[1] = "-" THEN Err("InvalidDigit", s)
              ELSE u32_digits(s, 2, <<0, 0>>)
         ELSE u32_digits(s, 1, <<0, 0>>)
\* s.parse::<u16>(): the same digits, in the 16-bit range
parse_u16(s) ==
    LET r == parse_u32(s)
    IN  IF r.tag = "Ok"
        THEN IF r.val[1] = 0 THEN Ok(r.val[2]) ELSE Err("PosOverflow", s)
        ELSE r

RECURSIVE int_digits(_, _, _)
\* the run of digits of s from position i on: <<value, next position>>
\* (a value of more than eight digits is kept at its first eight: no score
\* of the model has a real number that long)
int_digits(s, i, acc) ==
    IF i <= Len(s) /\ s[i] \in Digits
    THEN int_digits(s, i + 1,
                    IF acc >= 10000000 THEN acc ELSE acc * 10 + to_digit(s[i]))
    ELSE <<acc, i>>
\* s.parse::<f64>() for decimal literals [sign] digits [. [digit]] and
\* [sign] . digit, in tenths
parse_f64(s) ==
    LET neg == s # <<>> /\ s[1] = "-"
        start == IF s # <<>> /\ (s[1] = "-" \/ s[1] = "+") THEN 2 ELSE 1
        ip == int_digits(s, start, 0)
        dot == ip[2] <= Len(s) /\ s[ip[2]] = "."
        fp == IF dot THEN int_digits(s, ip[2] + 1, 0) ELSE <<0, ip[2]>>
        nint == ip[2] - start
        nfrac == IF dot THEN fp[2] - (ip[2] + 1) ELSE 0
        mag == ip[1] * 10 + fp[1]
    IN  IF fp[2] <= Len(s) \/ nint + nfrac = 0 \/ nfrac > 1
        THEN Err("ParseFloatError", s)
        ELSE Ok(IF neg THEN 0 - mag ELSE mag)

(***************************************************************************)
(* signal.rs, duration.rs, main.rs: durations and waveforms.               *)
(***************************************************************************)
\* the ticks of a duration abbreviation, -1 for any other token
abbrev_ticks(input) ==
    CASE input = <<"T", "S">> -> 2
      [] input = <<"D", "T", "S">> -> 3
      [] input = <<"S">> -> 4
      [] input = <<"D", "S">> -> 6
      [] input = <<"E">> -> 8
      [] input = <<"D", "E">> -> 12
      [] input = <<"Q">> -> 16
      [] input = <<"D", "Q">> -> 24
      [] input = <<"H">> -> 32
      [] input = <<"D", "H">> -> 48
      [] input = <<"W">> -> 64
      [] OTHER -> -1
\* signal.rs NoteDuration::new: an abbreviation, or else any u32 literal
NoteDuration_new(input) ==
    IF abbrev_ticks(input) >= 0 THEN Ok([ticks |-> U32(abbrev_ticks(input))])
    ELSE LET r == parse_u32(input)
         IN  IF r.tag = "Ok" THEN Ok([ticks |-> r.val])
             ELSE Err("BadDuration", input)
\* main.rs NoteDuration::from_abbrev followed by as_sf: abbreviations only
from_abbrev(input) ==
    IF abbrev_ticks(input) >= 0 THEN Ok([ticks |-> U32(abbrev_ticks(input))])
    ELSE Err("BadDuration", input)
WaveType_new(input) ==
    CASE input = <<"S">> -> Ok("Sine")
      [] input = <<"Q">> -> Ok("Square")
      [] input = <<"T">> -> Ok("Triangle")
      [] input = <<"A">> -> Ok("Sawtooth")
      [] OTHER -> Err("BadWaveform", input)

(***************************************************************************)
(* note.rs: notes and their frequencies.                                   *)
(***************************************************************************)
\* the pitch class a spelling names, "none" for any other string
pitch_class_of(s) ==
    CASE s = <<"A">> -> "A"
      [] s = <<"A", "#">> \/ s = <<"B", "b">> -> "BFlat"
      [] s = <<"B">> -> "B"
      [] s = <<"C">> -> "C"
      [] s = <<"C", "#">> \/ s = <<"D", "b">> -> "DFlat"
      [] s = <<"D">> -> "D"
      [] s = <<"D", "#">> \/ s = <<"E", "b">> -> "EFlat"
      [] s = <<"E">> -> "E"
      [] s = <<"F">> -> "F"
      [] s = <<"F", "#">> \/ s = <<"G", "b">> -> "GFlat"
      [] s = <<"G">> -> "G"
      [] s = <<"G", "#">> \/ s = <<"A", "b">> -> "AFlat"
      [] OTHER -> "none"
\* Note::new. The slice &note[..note.len() - 1] is taken first: it aborts
\* when the token is empty (the subtraction leaves usize) and when the byte
\* index falls inside the last character.
Note_new(note) ==
    IF note = <<>> THEN Panic
    ELSE IF len_utf8(note[Len(note)]) > 1 THEN Panic
    ELSE LET e == SubSeq(note, 1, Len(note) - 1)
             ch == note[Len(note)]
         IN  IF pitch_class_of(e) = "none" THEN Err("BadPitchClass", e)
             ELSE IF to_digit(ch) < 0 THEN Err("BadOctave", <<ch>>)
             ELSE Ok([pitch_class |-> pitch_class_of(e), octave |-> to_digit(ch)])

RECURSIVE powi(_, _)
\* b.powi(e) for e >= 0
powi(b, e) == IF e = 0 THEN 1 ELSE b * powi(b, e - 1)
\* 2.0.powf(k / 12) for k in 0..11, in thousandths
pow2_twelfths(k) ==
    <<1000, 1059, 1122, 1189, 1260, 1335, 1414, 1498, 1587, 1682, 1782, 1888>>[k + 1]
\* the exponent of 2 of a note as <<whole part, twelfths>>
exponent(note) ==
    LET o == note.octave
        p == note.pitch_class
    IN  CASE p = "A" -> <<o + 1, 0>>
          [] p = "BFlat" -> <<o + 1, 1>>
          [] p = "B" -> <<o + 1, 2>>
          [] p = "C" -> <<o, 3>>
          [] p = "DFlat" -> <<o, 4>>
          [] p = "D" -> <<o, 5>>
          [] p = "EFlat" -> <<o, 6>>
          [] p = "E" -> <<o, 7>>
          [] p = "F" -> <<o, 8>>
          [] p = "GFlat" -> <<o, 9>>
          [] p = "G" -> <<o, 10>>
          [] p = "AFlat" -> <<o, 11>>
\* base * 2^(exponent of the note), base and result in hundredths of a hertz
tempered(base, note) ==
    (base * powi(2, exponent(note)[1]) * pow2_twelfths(exponent(note)[2])) \div 1000
\* note.rs Note::equal_tempered: 13.75 * 2^...
equal_tempered(note) == tempered(1375, note)
\* main.rs equal_tempered: 13.5 * 2^...
main_equal_tempered(note) == tempered(1350, note)

(***************************************************************************)
(* signal.rs, main.rs: one line of the score.                              *)
(***************************************************************************)
\* NoteSignal_parse with a missing waveform defaulting to a sine
NoteSignal_parse_default_wave(input, permissive) ==
    LET parts == split_whitespace(input)
        start == parse_u32(parts[1])
        duration == IF permissive THEN NoteDuration_new(parts[2])
                    ELSE from_abbrev(parts[2])
        note == Note_new(parts[3])
        ampl == parse_f64(parts[4])
        wavetype == IF Len(parts) < 5 THEN Ok("Sine") ELSE WaveType_new(parts[5])
    IN  IF Len(parts) < 1 THEN Err("MissingEntry", <<>>)
        ELSE IF start.tag # "Ok" THEN Err("BadStartTime", parts[1])
        ELSE IF Len(parts) < 2 THEN Err("MissingEntry", <<>>)
        ELSE IF duration.tag # "Ok" THEN duration
        ELSE IF Len(parts) < 3 THEN Err("MissingEntry", <<>>)
        ELSE IF note.tag # "Ok" THEN note
        ELSE IF Len(parts) < 4 THEN Err("MissingEntry", <<>>)
        ELSE IF ampl.tag # "Ok" THEN Err("BadAmplitude", parts[4])
        ELSE IF wavetype.tag # "Ok" THEN wavetype
        ELSE Ok([start |-> start.val, duration |-> duration.val,
                 note |-> note.val, ampl |-> ampl.val,
                 wavetype |-> wavetype.val])
\* NoteSignal::new; permissive tells whether the duration may be a number
\* of ticks (signal.rs) or must be an abbreviation (main.rs)
NoteSignal_parse(input, permissive) ==
    LET parts == split_whitespace(input)
        start == parse_u32(parts[1])
        duration == IF permissive THEN NoteDuration_new(parts[2])
                    ELSE from_abbrev(parts[2])
        note == Note_new(parts[3])
        ampl == parse_f64(parts[4])
        wavetype == WaveType_new(parts[5])
    IN  IF Len(parts) < 1 THEN Err("MissingEntry", <<>>)
        ELSE IF start.tag # "Ok" THEN Err("BadStartTime", parts[1])
        ELSE IF Len(parts) < 2 THEN Err("MissingEntry", <<>>)
        ELSE IF duration.tag # "Ok" THEN duration
        ELSE IF Len(parts) < 3 THEN Err("MissingEntry", <<>>)
        ELSE IF note.tag # "Ok" THEN note
        ELSE IF Len(parts) < 4 THEN Err("MissingEntry", <<>>)
        ELSE IF ampl.tag # "Ok" THEN Err("BadAmplitude", parts[4])
        ELSE IF Len(parts) < 5 THEN Err("MissingEntry", <<>>)
        ELSE IF wavetype.tag # "Ok" THEN wavetype
        ELSE Ok([start |-> start.val, duration |-> duration.val,
                 note |-> note.val, ampl |-> ampl.val,
                 wavetype |-> wavetype.val])
\* signal.rs NoteSignal::new
NoteSignal_new(input) == NoteSignal_parse(input, TRUE)
\* main.rs NoteSignal::new
main_NoteSignal_new(input) == NoteSignal_parse(input, FALSE)

(***************************************************************************)
(* utils.rs, main.rs: the oscillators.  n is the sample index, ampl the    *)
(* amplitude in tenths, freq the frequency in hundredths of a hertz; the   *)
(* result is in thousandths.  The phase freq * n / SAMPLE_RATE is kept as  *)
(* the numerator of its fractional part over SAMPLE_RATE * 100.            *)
(***************************************************************************)
turn(n, freq) == (freq * n) % (SAMPLE_RATE * 100)
\* phase - floor(0.5 + phase), as a numerator over SAMPLE_RATE * 100
centred(n, freq) ==
    IF 2 * turn(n, freq) < SAMPLE_RATE * 100 THEN turn(n, freq)
    ELSE turn(n, freq) - SAMPLE_RATE * 100
\* f64::sin(2 pi phase) in hundredths, by Bhaskara's rational approximation
\* on whole degrees
sin100(n, freq) ==
    LET deg == (turn(n, freq) * 360) \div (SAMPLE_RATE * 100)
        x == IF deg <= 180 THEN deg ELSE deg - 180
        v == (400 * x * (180 - x)) \div (40500 - x * (180 - x))
    IN  IF deg <= 180 THEN v ELSE 0 - v
\* f64::signum(f64::sin(2 pi phase)): 1.0 in the first half of a turn, the
\* start included (signum(+0.0) is 1.0), -1.0 in the second
signum_sin(n, freq) == IF 2 * turn(n, freq) < SAMPLE_RATE * 100 THEN 1 ELSE -1
Abs(x) == IF x < 0 THEN 0 - x ELSE x
sine_wave(n, ampl, freq) == ampl * sin100(n, freq)
square_wave(n, ampl, freq) == ampl * 100 * signum_sin(n, freq)
triangle_wave(n, ampl, freq) ==
    ampl * (((400 * Abs(centred(n, freq))) \div (SAMPLE_RATE * 100)) - 100)
sawtooth_wave(n, ampl, freq) ==
    ampl * ((200 * centred(n, freq)) \div (SAMPLE_RATE * 100))

(***************************************************************************)
(* utils.rs, main.rs: the RIFF header.  checks tells whether the build     *)
(* checks integer overflow (a debug build) or wraps (a release build).     *)
(***************************************************************************)
header(data_size, checks) ==
    LET block_align == (CHANNELS * BITS_PER_SAMPLE) \div 8
        bytes_per_sec == SAMPLE_RATE * block_align
        file_size == U32_add(U32(36), data_size)
    IN  IF file_size.overflow /\ checks THEN Panic
        ELSE Ok(RIFF \o u32_to_le_bytes(file_size.val) \o WAVE \o FMT
                \o u32_to_le_bytes(U32(CHUNK_SIZE)) \o u16_to_le_bytes(FORMAT)
                \o u16_to_le_bytes(CHANNELS) \o u32_to_le_bytes(U32(SAMPLE_RATE))
                \o u32_to_le_bytes(U32(bytes_per_sec))
                \o u16_to_le_bytes(block_align)
                \o u16_to_le_bytes(BITS_PER_SAMPLE) \o DATA
                \o u32_to_le_bytes(data_size))

(***************************************************************************)
(* piece.rs, main.rs: the loader's loop body.                              *)
(***************************************************************************)
is_bpm_line(line) == starts_with(line, <<"B", "P", "M", " ">>)
is_ampl_line(line) ==
    \/ starts_with(line, <<"A", "M", "P", "L", " ">>)
    \/ starts_with(line, <<"A", "M", "P", "L", "I", "T", "U", "D", "E", " ">>)
\* bpm_directive without the test of bpm.is_none(): the last BPM line wins
bpm_directive_last_wins(line, bpm) ==
    LET r == parse_f64(nth_or_default(split_whitespace(line), 1))
    IN  IF r.tag = "Ok" THEN Ok(Some(r.val)) ELSE Err("BadBPM", skip4(line))
\* piece.rs 27-39: the tempo after a line that starts with "BPM "
bpm_directive(line, bpm) ==
    IF bpm.tag = "None"
    THEN LET r == parse_f64(nth_or_default(split_whitespace(line), 1))
         IN  IF r.tag = "Ok" THEN Ok(Some(r.val))
             ELSE Err("BadBPM", skip4(line))
    ELSE Ok(bpm)
\* piece.rs 41-53: the master amplitude after an "AMPL " or "AMPLITUDE " line
ampl_directive(line, ampl) ==
    IF ampl.tag = "None"
    THEN LET r == parse_u16(nth_or_default(split_whitespace(line), 1))
         IN  IF r.tag = "Ok" THEN Ok(Some(r.val))
             ELSE Err("BadAmplitude", skip4(line))
    ELSE Ok(ampl)
\* main.rs 208-219: the tempo, which is the whole first line
main_bpm_line(line) ==
    LET r == parse_f64(line)
    IN  IF r.tag = "Ok" THEN Ok(Some(r.val)) ELSE Err("BadBPM", line)

(***************************************************************************)
(* piece.rs, main.rs: the sample loop's body.  A piece is a record of its  *)
(* signals, its tempo in tenths, its master amplitude and the variant of   *)
(* the program that plays it ("piece" for piece.rs, "main" for main.rs).   *)
(***************************************************************************)
\* sample_to_tick, sample_to_sf: the cast to u32 saturates at 0
sample_to_tick(bpm, sample) ==
    LET q == (sample * 16 * bpm) \div (SAMPLE_RATE * 60 * 10)
    IN  U32(IF q < 0 THEN 0 ELSE q)
\* signal.start + signal.duration.ticks
end_tick(signal) == U32_add(signal.start, signal.duration.ticks)
\* started_not_ended with the start excluded from the window
started_not_ended_strict(signal, t) ==
    /\ U32_le(t, end_tick(signal).val)
    /\ U32_le(signal.start, t) /\ signal.start # t
\* the condition under which a signal sounds at tick t
started_not_ended(signal, t) ==
    /\ U32_le(t, end_tick(signal).val)
    /\ U32_le(signal.start, t)
\* still_running with > for >=: a signal is dropped at its end tick
still_running_strict(signal, t) ==
    U32_le(t, end_tick(signal).val) /\ t # end_tick(signal).val
\* the filter's condition: the signal has not ended at tick t
still_running(signal, t) == U32_le(t, end_tick(signal).val)
\* the amplitude and the frequency the oscillators are called with
scaled_ampl(signal, p) ==
    IF p.variant = "piece" THEN signal.ampl * p.ampl
    ELSE signal.ampl * BASE_AMPLITUDE
frequency(signal, p) ==
    IF p.variant = "piece" THEN equal_tempered(signal.note)
    ELSE main_equal_tempered(signal.note)
\* the match on signal.wavetype
oscillate(signal, sample, p) ==
    CASE signal.wavetype = "Sine" ->
            sine_wave(sample, scaled_ampl(signal, p), frequency(signal, p))
      [] signal.wavetype = "Square" ->
            square_wave(sample, scaled_ampl(signal, p), frequency(signal, p))
      [] signal.wavetype = "Triangle" ->
            triangle_wave(sample, scaled_ampl(signal, p), frequency(signal, p))
      [] signal.wavetype = "Sawtooth" ->
            sawtooth_wave(sample, scaled_ampl(signal, p), frequency(signal, p))

RECURSIVE superpose(_, _, _, _)
\* the inner loop over running[i..]: the accumulator of one sample
superpose(running, i, sample, p) ==
    IF i > Len(running) THEN 0
    ELSE (IF started_not_ended(running[i], sample_to_tick(p.bpm, sample))
          THEN oscillate(running[i], sample, p) ELSE 0)
         + superpose(running, i + 1, sample, p)
\* f64::round: to the nearest integer, halves away from zero (acc is in
\* thousandths)
round(acc) ==
    IF acc >= 0 THEN (acc + 500) \div 1000 ELSE 0 - ((500 - acc) \div 1000)
\* the cast `as i16`, which saturates
as_i16(x) == IF x > 32767 THEN 32767 ELSE IF x < -32768 THEN -32768 ELSE x
\* height without the clamp: the rounded value wraps into 16 bits
height_wrapping(acc) == ((round(acc) + 32768) % 65536) - 32768
\* the clamp of piece.rs 108-114
height(acc) ==
    IF round(acc) > 32767 THEN 32767
    ELSE IF acc < -32768000 THEN -32768
    ELSE as_i16(round(acc))
\* filter_running that keeps only the signals sounding at tick t, so that a
\* signal yet to start is dropped
filter_running_sounding(running, t) ==
    SelectSeq(running, LAMBDA sg : started_not_ended(sg, t))
\* the signals the filter keeps
filter_running(running, t) == SelectSeq(running, LAMBDA sg : still_running(sg, t))
\* whether start + duration.ticks leaves u32 for a signal of the sequence
some_overflow(running) == \E i \in 1..Len(running) : end_tick(running[i]).overflow

(***************************************************************************)
(* The scores of the model.                                                *)
(***************************************************************************)
RECURSIVE join(_)
\* the tokens, separated by one space each
join(tokens) ==
    IF Len(tokens) = 0 THEN <<>>
    ELSE IF Len(tokens) = 1 THEN tokens[1]
    ELSE tokens[1] \o <<" ">> \o join(Tail(tokens))
tBPM == <<"B", "P", "M">>
tAMPL == <<"A", "M", "P", "L">>
tAMPLITUDE == <<"A", "M", "P", "L", "I", "T", "U", "D", "E">>
tFast == <<"1", "6", "5", "3", "7", "6">>
tDouble == <<"3", "3", "0", "7", "5", "2">>
tOne == <<"1", ".", "0">>
tTS == <<"T", "S">>
\* tempos at which a sample lasts one tick, two ticks, and no time at all
LineBpmFast == join(<<tBPM, tFast>>)
LineBpmDouble == join(<<tBPM, tDouble>>)
LineBpmZero == join(<<tBPM, <<"0">>>>)
LineBpmBad == join(<<tBPM, <<"x">>>>)
LineAmplLoud == join(<<tAMPL, <<"4", "0", "0", "0", "0">>>>)
LineAmplitude == join(<<tAMPLITUDE, <<"3">>>>)
LineAmplBad == join(<<tAMPL, <<"-", "1">>>>)
LineSquare == join(<<<<"0">>, tTS, <<"A", "9">>, tOne, <<"Q">>>>)
LineSine == join(<<<<"1">>, tTS, <<"A", "4">>, <<"0", ".", "5">>, <<"S">>>>)
LineTriangle == join(<<<<"2">>, <<"1">>, <<"C", "#", "3">>, tOne, <<"T">>>>)
LineSawtooth == join(<<<<"0">>, <<"3">>, <<"B", "b", "2">>, tOne, <<"A">>>>)
LineFour == join(<<<<"0">>, tTS, <<"A", "4">>, tOne>>)
LineFourBadStart == join(<<<<"x">>, tTS, <<"A", "4">>, tOne>>)
LineSix == join(<<<<"0">>, tTS, <<"A", "4">>, tOne, <<"S">>, <<"S">>>>)
LineBadNote == join(<<<<"0">>, tTS, <<"H", "4">>, tOne, <<"S">>>>)
LineAbort == join(<<<<"0">>, tTS, <<"A", "e_acute">>, tOne, <<"S">>>>)
LineEmpty == <<>>
\* a signal of negative amplitude
LineNegative == join(<<<<"0">>, tTS, <<"A", "4">>, <<"-", "1", ".", "0">>, <<"S">>>>)
\* a signal that starts at the last tick of the u32 range
LineLate ==
    join(<<<<"4", "2", "9", "4", "9", "6", "7", "2", "9", "5">>, tTS,
           <<"A", "4">>, tOne, <<"S">>>>)
\* main.rs: the first line is the tempo alone
LineTempo == tFast
Lines ==
    { LineBpmFast, LineBpmDouble, LineBpmZero, LineBpmBad, LineAmplLoud,
      LineAmplitude, LineAmplBad, LineSquare, LineSine, LineTriangle,
      LineSawtooth, LineFour, LineFourBadStart, LineSix, LineBadNote,
      LineAbort, LineEmpty, LineNegative, LineLate, LineTempo }
Scores == UNION { [1..k -> Lines] : k \in 0..MaxLines }
\* the values the command line may give (the tempo in tenths: at 82688
\* beats a minute a tick lasts two samples)
CliBpm == {None, Some(826880)}
CliAmpl == {None, Some(5)}

(***************************************************************************)
(* The state of a run.                                                     *)
(***************************************************************************)
VARIABLES
    variant,          \* "piece": piece.rs and its modules; "main": main.rs
    overflow_checks,  \* whether the build checks integer overflow
    input,            \* the lines of the score
    cli_bpm,          \* the tempo given on the command line, if any
    cli_ampl,         \* the master amplitude given on the command line, if any
    pc,               \* where the run is
    n,                \* MusicalPiece::new: the number of lines read
    bpm,              \* MusicalPiece::new: the tempo so far
    ampl,             \* MusicalPiece::new: the master amplitude so far
    signals,          \* MusicalPiece::new: the signals so far
    piece,            \* what MusicalPiece::new returned
    sample,           \* synthesize: the sample index
    running_signals,  \* synthesize: the signals not yet pruned
    acc,              \* synthesize: the accumulator of the last sample
    data,             \* synthesize: the bytes emitted
    output,           \* the bytes of the file
    arg,              \* the argument of a function called on its own
    ret,              \* what that function returned
    env,              \* run: the command line and the file system
    written,          \* run: whether the output file was written
    printed           \* main: the messages printed

vars ==
    << variant, overflow_checks, input, cli_bpm, cli_ampl, pc, n, bpm, ampl,
       signals, piece, sample, running_signals, acc, data, output, arg, ret,
       env, written, printed >>
\* what run and main keep outside the piece
run_io == << env, written, printed >>

unwrap_or(opt, default) == IF opt.tag = "Some" THEN opt.val ELSE default

(***************************************************************************)
(* MusicalPiece::new, one line per step.                                   *)
(***************************************************************************)
\* what one pass of the loop body does with a line: the tempo, amplitude
\* and signals after it, or the error it returns, or an abort
load_line(line) ==
    LET keep == [tag |-> "Ok", bpm |-> bpm, ampl |-> ampl, signals |-> signals]
        b == IF variant = "piece" THEN bpm_directive(line, bpm)
             ELSE main_bpm_line(line)
        a == ampl_directive(line, ampl)
        sg == IF variant = "piece" THEN NoteSignal_new(line)
              ELSE main_NoteSignal_new(line)
    IN  IF (variant = "piece" /\ is_bpm_line(line)) \/ (variant = "main" /\ n = 0)
        THEN IF b.tag = "Ok" THEN [keep EXCEPT !.bpm = b.val] ELSE b
        ELSE IF variant = "piece" /\ is_ampl_line(line)
        THEN IF a.tag = "Ok" THEN [keep EXCEPT !.ampl = a.val] ELSE a
        ELSE IF sg.tag = "Ok"
        THEN [keep EXCEPT !.signals = Append(signals, sg.val)]
        ELSE sg

LoadLine ==
    /\ pc = "load"
    /\ n < Len(input)
    /\ \E r \in {load_line(input[n + 1])} :
           /\ n' = n + 1
           /\ bpm' = IF r.tag = "Ok" THEN r.bpm ELSE bpm
           /\ ampl' = IF r.tag = "Ok" THEN r.ampl ELSE ampl
           /\ signals' = IF r.tag = "Ok" THEN r.signals ELSE signals
           /\ piece' = CASE r.tag = "Ok" -> piece
                         [] r.tag = "Err" ->
                              [tag |-> "Err", line |-> n + 1, err |-> r]
                         [] r.tag = "Panic" -> Panic
           /\ pc' = CASE r.tag = "Ok" -> "load"
                      [] r.tag = "Err" -> "failed"
                      [] r.tag = "Panic" -> "panic"
    /\ UNCHANGED << run_io, variant, overflow_checks, input, cli_bpm, cli_ampl, sample,
                    running_signals, acc, data, output, arg, ret >>

\* the loop is over: the piece is returned and synthesize is entered.  In
\* main.rs a score without a first line is an error.
LoadEnd ==
    /\ pc = "load"
    /\ n = Len(input)
    /\ IF variant = "main" /\ Len(input) = 0
       THEN /\ piece' = [tag |-> "Err", line |-> 1,
                         err |-> Err("MissingEntry", <<>>)]
            /\ pc' = "failed"
            /\ UNCHANGED running_signals
       ELSE /\ piece' = Ok([signals |-> signals,
                            bpm |-> unwrap_or(bpm, DEFAULT_BPM * 10),
                            ampl |-> IF variant = "piece"
                                     THEN unwrap_or(ampl, DEFAULT_AMPL)
                                     ELSE BASE_AMPLITUDE,
                            variant |-> variant])
            /\ pc' = "synth"
            /\ running_signals' = signals
    /\ UNCHANGED << run_io, variant, overflow_checks, input, cli_bpm, cli_ampl, n, bpm,
                    ampl, signals, sample, acc, data, output, arg, ret >>

(***************************************************************************)
(* synthesize, one sample per step.  The model follows the loop up to      *)
(* sample MaxSample.                                                       *)
(***************************************************************************)
SynthStep ==
    /\ pc = "synth"
    /\ sample <= MaxSample
    /\ LET p == piece.val
           t == sample_to_tick(p.bpm, sample)
           a == superpose(running_signals, 1, sample, p)
           kept == filter_running(running_signals, t)
       IN  IF overflow_checks /\ some_overflow(running_signals)
           THEN /\ pc' = "panic"
                /\ UNCHANGED << sample, running_signals, acc, data >>
           ELSE /\ acc' = a
                /\ data' = data \o i16_to_le_bytes(height(a))
                /\ running_signals' = kept
                /\ pc' = IF kept = <<>> THEN "encode" ELSE "synth"
                /\ sample' = IF kept = <<>> THEN sample ELSE sample + 1
    /\ UNCHANGED << run_io, variant, overflow_checks, input, cli_bpm, cli_ampl, n, bpm,
                    ampl, signals, piece, output, arg, ret >>

\* run: the header of the data, then the data
Encode ==
    /\ pc = "encode"
    /\ LET h == header(U32(Len(data)), overflow_checks)
       IN  IF h.tag = "Ok"
           THEN output' = h.val \o data /\ pc' = "done"
           ELSE output' = output /\ pc' = "panic"
    /\ UNCHANGED << run_io, variant, overflow_checks, input, cli_bpm, cli_ampl, n, bpm,
                    ampl, signals, piece, sample, running_signals, acc, data,
                    arg, ret >>

\* run, main.rs 407-419: the argument and the read of the score
ReadFile ==
    /\ pc = "start"
    /\ IF env = "no_arg"
       THEN printed' = Append(printed, "Usage") /\ pc' = "exit"
       ELSE IF env = "unreadable"
       THEN printed' = printed /\ pc' = "failed"
       ELSE printed' = printed /\ pc' = "load"
    /\ UNCHANGED << env, written, variant, overflow_checks, input, cli_bpm,
                    cli_ampl, n, bpm, ampl, signals, piece, sample,
                    running_signals, acc, data, output, arg, ret >>

\* WriteFile that also writes what there is when run has failed
WriteFile_always ==
    /\ \/ pc = "done"
       \/ pc = "failed" /\ ~written /\ env = "ok"
    /\ IF env = "unwritable"
       THEN written' = written /\ pc' = "failed"
       ELSE written' = TRUE /\ pc' = IF pc = "done" THEN "exit" ELSE "failed"
    /\ UNCHANGED << env, printed, variant, overflow_checks, input, cli_bpm,
                    cli_ampl, n, bpm, ampl, signals, piece, sample,
                    running_signals, acc, data, output, arg, ret >>
\* run, main.rs 431-436: the write of the output file
WriteFile ==
    /\ pc = "done"
    /\ IF env = "unwritable"
       THEN written' = written /\ pc' = "failed"
       ELSE written' = TRUE /\ pc' = "exit"
    /\ UNCHANGED << env, printed, variant, overflow_checks, input, cli_bpm,
                    cli_ampl, n, bpm, ampl, signals, piece, sample,
                    running_signals, acc, data, output, arg, ret >>

\* the error run returned
run_error ==
    IF env = "unreadable" THEN "FileReadError"
    ELSE IF piece.tag = "Err" THEN "SyntaxError"
    ELSE "FileWriteError"
\* main, main.rs 400-405: the error of run is printed
Report ==
    /\ pc = "failed"
    /\ printed' = Append(printed, run_error)
    /\ pc' = "exit"
    /\ UNCHANGED << env, written, variant, overflow_checks, input, cli_bpm,
                    cli_ampl, n, bpm, ampl, signals, piece, sample,
                    running_signals, acc, data, output, arg, ret >>

\* what run may find: a readable score and a writable output, no argument,
\* an unreadable score, an output that cannot be written
Envs == {"ok", "no_arg", "unreadable", "unwritable"}
\* the scores of the runs whose output cannot be written
UnwritableScores == {<<>>, <<LineSquare>>, <<LineBpmFast, LineSquare>>, <<LineBadNote>>}
Init ==
    /\ variant \in {"piece", "main"}
    /\ overflow_checks \in BOOLEAN
    /\ env \in Envs
    /\ input \in CASE env = "ok" -> Scores
                  [] env = "unwritable" -> UnwritableScores
                  [] OTHER -> {<<>>}
    /\ cli_bpm \in IF variant = "piece" THEN CliBpm ELSE {None}
    /\ cli_ampl \in IF variant = "piece" THEN CliAmpl ELSE {None}
    /\ written = FALSE
    /\ printed = <<>>
    /\ pc = "start"
    /\ n = 0
    /\ bpm = cli_bpm
    /\ ampl = cli_ampl
    /\ signals = <<>>
    /\ piece = None
    /\ sample = 0
    /\ running_signals = <<>>
    /\ acc = 0
    /\ data = <<>>
    /\ output = <<>>
    /\ arg = None
    /\ ret = None

Next ==
    ReadFile \/ LoadLine \/ LoadEnd \/ SynthStep \/ Encode \/ WriteFile \/ Report

Spec == Init /\ [][Next]_vars

(***************************************************************************)
(* header and Note::new called on their own.                               *)
(***************************************************************************)
idle ==
    /\ variant = "piece"
    /\ input = <<>>
    /\ cli_bpm = None
    /\ cli_ampl = None
    /\ n = 0
    /\ bpm = None
    /\ ampl = None
    /\ signals = <<>>
    /\ piece = None
    /\ sample = 0
    /\ running_signals = <<>>
    /\ acc = 0
    /\ data = <<>>
    /\ output = <<>>
    /\ ret = None
    /\ env = "ok"
    /\ written = FALSE
    /\ printed = <<>>
unchanged_run ==
    UNCHANGED << run_io, variant, overflow_checks, input, cli_bpm, cli_ampl, n, bpm,
                 ampl, signals, piece, sample, running_signals, acc, data,
                 output, arg >>

\* data sizes at the edges of the bytes of a u32
DataSizes ==
    { <<hi, lo>> : hi \in {0, 1, 255, 32768, 65535},
                   lo \in {0, 2, 36, 255, 256, 65499, 65500, 65535} }
InitHeader ==
    /\ idle
    /\ overflow_checks \in BOOLEAN
    /\ arg \in DataSizes
    /\ pc = "header"
HeaderCall ==
    /\ pc = "header"
    /\ ret' = header(arg, overflow_checks)
    /\ pc' = "returned"
    /\ unchanged_run
NextHeader == HeaderCall
SpecHeader == InitHeader /\ [][NextHeader]_vars

\* square_wave called on its own, as utils.rs and as main.rs define it
SquareArgs ==
    { [n |-> i, ampl |-> a, freq |-> f] :
        i \in 0..MaxSample, a \in {0, 10, 15},
        f \in { equal_tempered([pitch_class |-> "A", octave |-> o]) :
                   o \in {0, 2, 4, 9} } }
InitSquare ==
    /\ idle
    /\ overflow_checks \in BOOLEAN
    /\ arg \in SquareArgs
    /\ pc = "square"
SquareCall ==
    /\ pc = "square"
    /\ ret' = [tag |-> "Wave",
               utils |-> square_wave(arg.n, arg.ampl, arg.freq),
               main |-> square_wave(arg.n, arg.ampl * BASE_AMPLITUDE, arg.freq)]
    /\ pc' = "returned"
    /\ unchanged_run
NextSquare == SquareCall
SpecSquare == InitSquare /\ [][NextSquare]_vars

NoteChars == {"A", "B", "b", "#", "H", "x", "e_acute"} \cup Digits
Tokens == UNION { [1..k -> NoteChars] : k \in 0..MaxTokenLen }
InitNote ==
    /\ idle
    /\ overflow_checks \in BOOLEAN
    /\ arg \in Tokens
    /\ pc = "note"
NoteCall ==
    /\ pc = "note"
    /\ ret' = Note_new(arg)
    /\ pc' = "noted"
    /\ unchanged_run
\* the frequency of the note parsed, by note.rs and by main.rs
FrequencyCall ==
    /\ pc = "noted"
    /\ ret.tag = "Ok"
    /\ ret' = [tag |-> "Hz", note |-> ret.val,
               piece |-> equal_tempered(ret.val),
               main |-> main_equal_tempered(ret.val)]
    /\ pc' = "returned"
    /\ unchanged_run
NextNote == NoteCall \/ FrequencyCall
SpecNote == InitNote /\ [][NextNote]_vars

(***************************************************************************)
(* C1.                                                                     *)
(***************************************************************************)
\* the u32 a little-endian field of four bytes holds, as <<hi, lo>>
le_u32(bytes, at) ==
    <<bytes[at + 3] + 256 * bytes[at + 4], bytes[at + 1] + 256 * bytes[at + 2]>>
le_u16(bytes, at) == bytes[at + 1] + 256 * bytes[at + 2]
\* the field at offset 4 holds exactly 36 + data_size
holds_36_more(field, data_size) ==
    /\ field[1] - data_size[1] \in {0, 1}
    /\ field[2] + 65536 * (field[1] - data_size[1]) = data_size[2] + 36
\* the 44 bytes of section 6 for a data size
is_canonical_header(h, data_size) ==
    /\ Len(h) = 44
    /\ SubSeq(h, 1, 4) = <<82, 73, 70, 70>>
    /\ holds_36_more(le_u32(h, 4), data_size)
    /\ SubSeq(h, 9, 12) = <<87, 65, 86, 69>>
    /\ SubSeq(h, 13, 16) = <<102, 109, 116, 32>>
    /\ le_u32(h, 16) = <<0, 16>>
    /\ le_u16(h, 20) = 1
    /\ le_u16(h, 22) = 1
    /\ le_u32(h, 24) = <<0, 44100>>
    /\ le_u32(h, 28) = <<1, 22664>>
    /\ le_u16(h, 32) = 2
    /\ le_u16(h, 34) = 16
    /\ SubSeq(h, 37, 40) = <<100, 97, 116, 97>>
    /\ le_u32(h, 40) = data_size

\* C1: for every data_size, header(data_size) returns the 44 bytes of the
\* canonical layout, whose size field at offset 4 is 36 + data_size.
C1_HeaderForEverySize ==
    pc = "returned" =>
        /\ ret.tag = "Ok"
        /\ is_canonical_header(ret.val, arg)

\* the part of C1 that the code satisfies: the layout whenever
\* 36 + data_size is a u32, and the file being the header of the number of
\* bytes of the data followed by the data
HeaderWithinRange ==
    pc = "returned" /\ ~U32_add(U32(36), arg).overflow =>
        /\ ret.tag = "Ok"
        /\ is_canonical_header(ret.val, arg)
OutputIsHeaderThenData ==
    pc = "done" =>
        /\ is_canonical_header(SubSeq(output, 1, 44), U32(Len(data)))
        /\ SubSeq(output, 45, Len(output)) = data

(***************************************************************************)
(* C9, C10.                                                                *)
(***************************************************************************)
Spellings ==
    { <<"A">>, <<"A", "#">>, <<"B", "b">>, <<"B">>, <<"C">>, <<"C", "#">>,
      <<"D", "b">>, <<"D">>, <<"D", "#">>, <<"E", "b">>, <<"E">>, <<"F">>,
      <<"F", "#">>, <<"G", "b">>, <<"G">>, <<"G", "#">>, <<"A", "b">> }
\* C9: Note::new returns for every token: MissingEntry for the empty one,
\* BadOctave when the last character is no digit, BadPitchClass when what
\* precedes the last character is no pitch-class spelling.
C9_NoteNewAlwaysReturns ==
    pc = "noted" =>
        /\ ret.tag \in {"Ok", "Err"}
        /\ arg = <<>> => ret.tag = "Err" /\ ret.kind = "MissingEntry"
        /\ arg # <<>> /\ arg[Len(arg)] \notin Digits =>
               ret.tag = "Err" /\ ret.kind = "BadOctave"
        /\ arg # <<>> /\ SubSeq(arg, 1, Len(arg) - 1) \notin Spellings =>
               ret.tag = "Err" /\ ret.kind = "BadPitchClass"

\* C10: for every octave o in 0..9 the frequency of A in octave o is
\* 27.5 * 2^o Hz, in note.rs and in main.rs alike.
C10_AnchorA ==
    pc = "returned" /\ ret.tag = "Hz" /\ ret.note.pitch_class = "A" =>
        /\ ret.piece = 2750 * 2 ^ ret.note.octave
        /\ ret.main = 2750 * 2 ^ ret.note.octave
\* what note.rs alone satisfies
AnchorA_note_rs ==
    pc = "returned" /\ ret.tag = "Hz" /\ ret.note.pitch_class = "A" =>
        ret.piece = 2750 * 2 ^ ret.note.octave

(***************************************************************************)
(* C2, C3, C4: the loader.                                                 *)
(***************************************************************************)
\* MusicalPiece::new has returned or aborted
Loaded == pc \notin {"start", "load", "header", "note", "noted", "returned"}
\* the second token of a directive line
directive_token(line) == nth_or_default(split_whitespace(line), 1)
BpmLines == { i \in 1..Len(input) : is_bpm_line(input[i]) }
AmplLines == { i \in 1..Len(input) : is_ampl_line(input[i]) }
First(S) == CHOOSE i \in S : \A j \in S : i <= j
\* the tempo and the amplitude the resolution rule asks for
ExpectedBpm ==
    IF cli_bpm.tag = "Some" THEN cli_bpm.val
    ELSE IF BpmLines # {} THEN parse_f64(directive_token(input[First(BpmLines)])).val
    ELSE DEFAULT_BPM * 10
ExpectedAmpl ==
    IF cli_ampl.tag = "Some" THEN cli_ampl.val
    ELSE IF AmplLines # {}
    THEN parse_u16(directive_token(input[First(AmplLines)])).val
    ELSE DEFAULT_AMPL

\* C2: the tempo of the piece MusicalPiece::new returns is the command
\* line's if one was given, otherwise that of the first BPM line of the
\* score, otherwise DEFAULT_BPM, whatever BPM lines follow; the same for the
\* master amplitude with AMPL and AMPLITUDE lines and DEFAULT_AMPL.
C2_FirstWriterWins ==
    variant = "piece" /\ piece.tag = "Ok" =>
        /\ piece.val.bpm = ExpectedBpm
        /\ piece.val.ampl = ExpectedAmpl
\* a score of two BPM lines of different tempos was loaded and the piece
\* has the tempo of the first
C2_Witness ==
    /\ variant = "piece" /\ piece.tag = "Ok"
    /\ cli_bpm = None
    /\ input = <<LineBpmDouble, LineBpmFast>>
    /\ piece.val.bpm = 3307520

\* whether line i of the score is malformed
fails_to_parse(i) ==
    IF variant = "main"
    THEN IF i = 1 THEN parse_f64(input[i]).tag # "Ok"
         ELSE main_NoteSignal_new(input[i]).tag # "Ok"
    ELSE IF is_bpm_line(input[i])
         THEN parse_f64(directive_token(input[i])).tag # "Ok"
         ELSE IF is_ampl_line(input[i])
         THEN parse_u16(directive_token(input[i])).tag # "Ok"
         ELSE NoteSignal_new(input[i]).tag # "Ok"
FailingLines == { i \in 1..Len(input) : fails_to_parse(i) }
\* C3: when some line of the score fails to parse, MusicalPiece::new
\* returns a SyntaxError tagged with the number of the first such line,
\* whether or not the tempo or the amplitude was set before that line.
C3_FirstErrorAborts ==
    piece.tag \in {"Ok", "Err"} /\ FailingLines # {} =>
        /\ piece.tag = "Err"
        /\ piece.line = First(FailingLines)

\* line k has four fields and is no directive
four_fields(k) ==
    /\ Len(split_whitespace(input[k])) = 4
    /\ IF variant = "piece"
       THEN ~is_bpm_line(input[k]) /\ ~is_ampl_line(input[k])
       ELSE k > 1
\* the four fields of line k are a start, a duration, a note and an
\* amplitude
four_valid_fields(k) ==
    LET parts == split_whitespace(input[k])
    IN  /\ four_fields(k)
        /\ parse_u32(parts[1]).tag = "Ok"
        /\ IF variant = "piece" THEN NoteDuration_new(parts[2]).tag = "Ok"
           ELSE from_abbrev(parts[2]).tag = "Ok"
        /\ Note_new(parts[3]).tag = "Ok"
        /\ parse_f64(parts[4]).tag = "Ok"
is_missing_entry(k) ==
    /\ pc \in {"failed", "exit"}
    /\ piece.tag = "Err"
    /\ piece.line = k
    /\ piece.err.kind = "MissingEntry"
InitStatedTempo ==
    /\ Init
    /\ variant = "piece" =>
          \/ cli_bpm.tag = "Some"
          \/ input # <<>> /\ is_bpm_line(input[1])
\* nothing interrupts synthesize or run: the loop computes its next sample
\* whenever it has one, and the buffer it returns is encoded
SpecFair ==
    /\ InitStatedTempo /\ [][Next]_vars
    /\ WF_vars(LoadEnd) /\ WF_vars(SynthStep) /\ WF_vars(Encode)

\* C5: synthesis of every piece the loader returns terminates: synthesize
\* returns its buffer.
C5_SynthesisTerminates == (piece.tag = "Ok") ~> (pc \in {"encode", "done"})
\* the model stops counting samples only in runs whose tempo is not
\* positive, where sample_to_tick is 0 at every sample
BoundCutsOnlyFrozenTempo ==
    pc = "synth" /\ sample > MaxSample =>
        /\ piece.val.bpm <= 0
        /\ running_signals # <<>>
        /\ \A k \in 1..Len(running_signals) :
              still_running(running_signals[k], U32(0))
        /\ \A m \in 0..(100 * MaxSample) : sample_to_tick(piece.val.bpm, m) = U32(0)
\* every piece of positive tempo whose end ticks are in the u32 range is
\* played to its end
PositiveTempoTerminates ==
    (piece.tag = "Ok" /\ piece.val.bpm > 0 /\ ~some_overflow(piece.val.signals))
        ~> (pc \in {"encode", "done"})

(***************************************************************************)
(* C6, C7, C8: the sample loop.                                            *)
(***************************************************************************)
\* some sample has been emitted
Emitted == pc \in {"synth", "encode", "done", "failed", "exit"} /\ Len(data) > 0
\* the index of the last sample emitted
last == (Len(data) \div 2) - 1
\* start <= t <= start + duration.ticks, the end as the loop computes it
in_window(signal, t) ==
    U32_le(signal.start, t) /\ U32_le(t, U32_add(signal.start, signal.duration.ticks).val)
RECURSIVE window_sum(_, _, _)
\* the sum over the first k signals of the piece of what those in their
\* window at sample m contribute
window_sum(p, k, m) ==
    IF k = 0 THEN 0
    ELSE window_sum(p, k - 1, m)
         + (IF in_window(p.signals[k], sample_to_tick(p.bpm, m))
            THEN oscillate(p.signals[k], m, p) ELSE 0)

\* C6: at every emitted sample the accumulator is the sum of the
\* oscillators of exactly the signals of the piece whose window, closed at
\* both ends, holds the tick of the sample.
C6_Superposition ==
    Emitted => acc = window_sum(piece.val, Len(piece.val.signals), last)
\* two signals of the piece sound at the sample and the accumulator is the
\* sum of the two, a third value
C6_Witness ==
    /\ Emitted
    /\ Len(piece.val.signals) = 2
    /\ \A k \in 1..2 :
          /\ in_window(piece.val.signals[k], sample_to_tick(piece.val.bpm, last))
          /\ oscillate(piece.val.signals[k], last, piece.val) # 0
    /\ acc = oscillate(piece.val.signals[1], last, piece.val)
             + oscillate(piece.val.signals[2], last, piece.val)

\* the integer nearest to acc thousandths, a half going away from zero
nearest(a) ==
    LET f == a \div 1000
        r == a - 1000 * f
    IN  IF r > 500 \/ (r = 500 /\ a >= 0) THEN f + 1 ELSE f
saturated(v) == IF v > 32767 THEN 32767 ELSE IF v < -32768 THEN -32768 ELSE v
\* the i16 two little-endian bytes hold
le_i16(b) ==
    LET u == b[1] + 256 * b[2]
    IN  IF u >= 32768 THEN u - 65536 ELSE u
\* C7: every sample emitted is the accumulator rounded to the nearest
\* integer and saturated to the range of an i16, appended as two
\* little-endian bytes.
C7_RoundedSaturatedSample ==
    Emitted =>
        /\ Len(data) = 2 * (IF pc = "synth" THEN sample ELSE sample + 1)
        /\ le_i16(SubSeq(data, Len(data) - 1, Len(data))) = saturated(nearest(acc))
\* an accumulator of 40000 was emitted as 32767 and the one of -40000 that
\* follows as -32768
C7_Witness ==
    /\ Emitted
    /\ Len(data) = 6
    /\ acc = -40000000
    /\ SubSeq(data, 1, 2) = <<255, 127>>
    /\ SubSeq(data, 5, 6) = <<0, 128>>

\* the tick of sample m is past the end of every signal of the piece
past_every_end(p, m) ==
    \A k \in 1..Len(p.signals) :
        LET e == U32_add(p.signals[k].start, p.signals[k].duration.ticks).val
        IN  ~U32_le(sample_to_tick(p.bpm, m), e)
\* C8: when synthesize returns, the last sample emitted is the first one
\* whose tick is past the end tick of every signal, and the buffer holds the
\* samples up to it.
C8_HaltsAtBoundarySample ==
    pc \in {"encode", "done"} =>
        /\ past_every_end(piece.val, sample)
        /\ \A m \in 0..(sample - 1) : ~past_every_end(piece.val, m)
        /\ Len(data) = 2 * (sample + 1)
\* a signal of ticks 0..2 at two samples a tick: samples 0..5 sound, sample
\* 6 is the boundary sample and the last
C8_Witness ==
    /\ pc = "done"
    /\ Len(piece.val.signals) = 1
    /\ piece.val.bpm = 826880
    /\ piece.val.signals[1].duration.ticks = U32(2)
    /\ sample = 6
    /\ Len(data) = 14

(***************************************************************************)
(* C11: the arithmetic of the sample loop.                                 *)
(***************************************************************************)
\* C11: synthesis of a piece the loader returned cannot fail: for every
\* signal of the piece start + duration.ticks is in the u32 range, and the
\* loop does not abort.
C11_LoopArithmeticInRange ==
    piece.tag = "Ok" =>
        /\ ~some_overflow(piece.val.signals)
        /\ pc # "panic"
\* what holds instead: the loop aborts only in a build that checks
\* overflow, and only on a piece with an end tick beyond u32
AbortOnlyOnOverflow ==
    piece.tag = "Ok" /\ pc = "panic" =>
        overflow_checks /\ some_overflow(piece.val.signals)

(***************************************************************************)
(* C12: run and main.                                                      *)
(***************************************************************************)
\* the run is over
Exited == pc = "exit"
\* C12: the output file is written only after the score was read, parsed
\* and synthesized; a run whose score cannot be read or does not parse
\* prints exactly one message and writes nothing; a run that succeeds
\* prints nothing.
C12_WriteOnlyOnSuccess ==
    /\ written =>
          /\ env = "ok" /\ piece.tag = "Ok"
          /\ Len(data) > 0 /\ running_signals = <<>>
          /\ output = header(U32(Len(data)), overflow_checks).val \o data
    /\ Exited /\ (env = "unreadable" \/ piece.tag = "Err") =>
          Len(printed) = 1 /\ ~written
    /\ Exited /\ written => printed = <<>>
\* a score whose second line does not parse: one message, no file
C12_Witness ==
    /\ Exited
    /\ Len(input) = 2
    /\ piece.tag = "Err" /\ piece.line = 2
    /\ printed = <<"SyntaxError">>
    /\ ~written
\* a run that succeeded: a file and no message
WrittenSilently == Exited /\ written /\ printed = <<>>

(***************************************************************************)
(* C13: pruning.                                                           *)
(***************************************************************************)
\* the signals of running_signals that the step under way removes
removed(i) ==
    /\ pc = "synth"
    /\ \A j \in 1..Len(running_signals') : running_signals'[j] # running_signals[i]
RECURSIVE unpruned(_, _)
\* the bytes of samples 0..m of an engine that tests every signal of the
\* piece at every sample
unpruned(p, m) ==
    IF m < 0 THEN <<>>
    ELSE unpruned(p, m - 1)
         \o i16_to_le_bytes(saturated(nearest(window_sum(p, Len(p.signals), m))))
\* C13: a signal removed from the running set at sample n has its end tick
\* strictly before tick(n) and is in its window at no sample from n on;
\* and the buffer is that of an engine that never removes a signal.
C13_PruningSound ==
    /\ [][\A i \in 1..Len(running_signals) :
            removed(i) =>
                LET sg == running_signals[i]
                IN  /\ ~U32_le(sample_to_tick(piece.val.bpm, sample),
                               U32_add(sg.start, sg.duration.ticks).val)
                    /\ \A m \in sample..(2 * MaxSample + 2) :
                          ~in_window(sg, sample_to_tick(piece.val.bpm, m))]_vars
    /\ [](Emitted => data = unpruned(piece.val, last))
\* of two signals that sounded, one has been removed and the other is still
\* running
C13_Witness ==
    /\ pc = "synth"
    /\ Len(piece.val.signals) = 2
    /\ Len(running_signals) = 1
    /\ \A k \in 1..2 :
          \E m \in 0..last :
              /\ in_window(piece.val.signals[k], sample_to_tick(piece.val.bpm, m))
              /\ oscillate(piece.val.signals[k], m, piece.val) # 0

(***************************************************************************)
(* C14: the invariants of the data model.                                  *)
(***************************************************************************)
\* C14: every piece MusicalPiece::new returns has a positive tempo, a
\* master amplitude that is not negative, and signals whose start, duration
\* and amplitude are not negative; a score with a tempo that is zero or
\* negative or with a negative amplitude is rejected.
C14_DataModelInvariants ==
    piece.tag = "Ok" =>
        /\ piece.val.bpm > 0
        /\ piece.val.ampl >= 0
        /\ \A k \in 1..Len(piece.val.signals) :
              LET sg == piece.val.signals[k]
              IN  /\ sg.start[1] >= 0 /\ sg.start[2] >= 0
                  /\ sg.duration.ticks[1] >= 0 /\ sg.duration.ticks[2] >= 0
                  /\ sg.ampl >= 0
\* what the types of the piece do give: the unsigned fields
UnsignedFieldsNonNegative ==
    piece.tag = "Ok" =>
        /\ piece.val.ampl >= 0
        /\ \A k \in 1..Len(piece.val.signals) :
              LET sg == piece.val.signals[k]
              IN  /\ sg.start[1] >= 0 /\ sg.start[2] >= 0
                  /\ sg.duration.ticks[1] >= 0 /\ sg.duration.ticks[2] >= 0
\* a piece with a tempo of 0 was returned, and one with a signal of
\* negative amplitude
ZeroTempoAccepted == piece.tag = "Ok" /\ piece.val.bpm = 0
NegativeAmplitudeAccepted ==
    piece.tag = "Ok" /\ \E k \in 1..Len(piece.val.signals) : piece.val.signals[k].ampl < 0

(***************************************************************************)
(* C15: the square oscillator.                                             *)
(***************************************************************************)
\* sin(2 pi phase) is zero: the phase is a whole number of half turns
sine_is_zero(i, freq) == (2 * freq * i) % (SAMPLE_RATE * 100) = 0
\* C15: square_wave returns 0 whenever the sine is zero, at sample 0 for
\* every frequency and amplitude in particular, and +a or -a by the sign of
\* the sine otherwise.
C15_SquareZeroAtZero ==
    pc = "returned" /\ ret.tag = "Wave" =>
        /\ arg.n = 0 => ret.utils = 0 /\ ret.main = 0
        /\ ~sine_is_zero(arg.n, arg.freq) =>
              LET sign == IF 2 * turn(arg.n, arg.freq) < SAMPLE_RATE * 100
                          THEN 1 ELSE -1
              IN  /\ ret.utils = sign * arg.ampl * 100
                  /\ ret.main = sign * arg.ampl * BASE_AMPLITUDE * 100
\* what the code satisfies: the value is +a or -a at every sample, with the
\* sign of the sine where the sine is not zero, and +a at sample 0
SquareIsNeverZero ==
    pc = "returned" /\ ret.tag = "Wave" =>
        /\ ret.utils \in {arg.ampl * 100, 0 - arg.ampl * 100}
        /\ arg.n = 0 => ret.utils = arg.ampl * 100
        /\ arg.n = 0 => ret.main = arg.ampl * BASE_AMPLITUDE * 100

(***************************************************************************)
(* C16: empty lines.                                                       *)
(***************************************************************************)
\* line k is a directive (in main.rs: the first line, which is the tempo)
is_directive(k) ==
    IF variant = "piece" THEN is_bpm_line(input[k]) \/ is_ampl_line(input[k])
    ELSE k = 1
RECURSIVE signals_of(_, _)
\* the signals of the lines among the first k that are no directive and,
\* when skip_empty, not empty, in the order of the score
signals_of(k, skip_empty) ==
    IF k = 0 THEN <<>>
    ELSE IF is_directive(k) \/ (skip_empty /\ input[k] = <<>>)
    THEN signals_of(k - 1, skip_empty)
    ELSE Append(signals_of(k - 1, skip_empty),
                (IF variant = "piece" THEN NoteSignal_new(input[k])
                 ELSE main_NoteSignal_new(input[k])).val)
\* C16: an empty line of the score raises no error and adds no signal: the
\* signals of the piece are those of the lines that are neither empty nor
\* directives, in the order of the score.
C16_EmptyLinesSkipped ==
    /\ piece.tag = "Err" /\ piece.line <= Len(input) => input[piece.line] # <<>>
    /\ piece.tag = "Ok" => piece.val.signals = signals_of(Len(input), TRUE)
\* what the loader does: every line that is no directive goes to
\* NoteSignal::new, the empty ones too, which fail there
EveryOtherLineDelegated ==
    /\ piece.tag = "Ok" =>
          /\ piece.val.signals = signals_of(Len(input), FALSE)
          /\ \A k \in 1..Len(input) : input[k] # <<>>
    /\ \A k \in 1..Len(input) :
          n >= k /\ ~is_directive(k) /\ input[k] = <<>> =>
              piece.tag = "Err" /\ piece.line = k /\ piece.err.kind = "MissingEntry"

(***************************************************************************)
(* C17: the number of fields.                                              *)
(***************************************************************************)
\* the number of fields of line k
fields(k) == Len(split_whitespace(input[k]))
\* NoteSignal::new was called on line k and returned a signal
yields_signal(k) ==
    /\ n >= k
    /\ ~is_directive(k)
    /\ ~(piece.tag = "Err" /\ piece.line = k)
    /\ ~(piece.tag = "Panic" /\ n = k)
\* C17: NoteSignal::new yields a signal only for a line of exactly five
\* fields, never for one of fewer or of more.
C17_ExactlyFiveFields ==
    \A k \in 1..Len(input) : yields_signal(k) => fields(k) = 5
\* what the code satisfies: a line of fewer than five fields yields none
FewerThanFiveRejected ==
    \A k \in 1..Len(input) : yields_signal(k) => fields(k) >= 5
\* a line of six fields yielded a signal, made of the first five
SixFieldsAccepted ==
    /\ input = <<LineSix>>
    /\ piece.tag = "Ok"
    /\ piece.val.signals = <<NoteSignal_new(LineFour \o <<" ", "S">>).val>>

====
